---- MODULE Spec2Model ----
(***************************************************************************)
(* Model of utils/utils.py of PyTorch-YOLOv3: the geometry (bbox_iou,      *)
(* bbox_wh_iou, xywh2xyxy), non_max_suppression, build_targets,            *)
(* get_batch_statistics, ap_per_class and compute_ap.                      *)
(*                                                                         *)
(* Numbers.  Tensor entries are modelled as exact rationals [n, d] in      *)
(* lowest terms with d > 0.  The 1e-16 added to a denominator is below     *)
(* half an ulp of any denominator >= 1, so the floating-point sum equals   *)
(* the denominator itself; it only matters for a denominator of 0, where   *)
(* the quotient is 0/1e-16 = 0.  The value 0/0 is NaN, modelled by the     *)
(* pair [0, 0]: arithmetic propagates it, every comparison with it is      *)
(* false.                                                                  *)
(***************************************************************************)
EXTENDS Integers, Sequences, FiniteSets, TLC

VARIABLES
    pc,           \* position in the function being executed
    prediction,   \* non_max_suppression: the caller's tensor, mutated in place
    prediction_in,\* the tensor as the caller passed it
    conf_thres,   \* non_max_suppression argument
    nms_thres,    \* non_max_suppression argument
    image_i,      \* index of the image being processed (1-based)
    detections,   \* candidates still in the pool of the current image
    keep_boxes,   \* detections emitted so far for the current image
    output,       \* per-image result: None or the stacked detections
    first_output, \* result of the first pass when the output is fed back
    pass,         \* 1: the caller's batch, 2: the fed-back detections
    box1, box2,   \* bbox_iou: the two boxes
    x1y1x2y2,     \* bbox_iou: TRUE for corner form, FALSE for center-size
    iou,          \* bbox_iou: the value returned
    outputs,      \* get_batch_statistics: per-sample detections or None
    targets,      \* get_batch_statistics: rows (sample, label, box)
    iou_threshold,\* get_batch_statistics argument
    sample_i,     \* sample being processed (1-based; the code counts from 0)
    pred_i,       \* detection being processed (1-based)
    detected_boxes, \* indices of the ground-truth boxes claimed so far
    true_positives, \* the 0/1 flag of each detection of the sample
    batch_metrics,\* the rows [true_positives, pred_scores, pred_labels]
    tp, conf, pred_cls, target_cls, \* ap_per_class arguments (sorted in place)
    unique_classes, \* ap_per_class: np.unique(target_cls)
    class_k,      \* ap_per_class: position in unique_classes (1-based)
    ap, p, r, f1, \* ap_per_class: the result lists
    recall, precision, \* compute_ap arguments
    mrec, mpre,   \* compute_ap: the padded curves
    scan_i,       \* compute_ap: index of the envelope scan (1-based)
    ap_value,     \* compute_ap: the value returned
    caller,       \* who called compute_ap
    target,       \* build_targets: rows (b, label, cx, cy, w, h), normalised
    anchors,      \* build_targets: the (w, h) templates, in grid units
    ignore_thres, \* build_targets argument
    nB, nA, nC, nG, \* build_targets: the sizes of pred_boxes and pred_cls
    best_n,       \* build_targets: the best anchor of each target (0-based)
    ignore_i,     \* build_targets: position of the loop of lines 316-317
    obj_mask, noobj_mask, class_mask, iou_scores,
    tx, ty, tw, th, tcls, tconf  \* build_targets: the output tensors

nmsVars == <<prediction, prediction_in, conf_thres, nms_thres, image_i,
             detections, keep_boxes, output, first_output, pass>>
iouVars == <<box1, box2, x1y1x2y2, iou>>
gbsVars == <<outputs, targets, iou_threshold, sample_i, pred_i,
             detected_boxes, true_positives, batch_metrics>>

apcVars == <<tp, conf, pred_cls, target_cls, unique_classes, class_k,
             ap, p, r, f1>>
capVars == <<recall, precision, mrec, mpre, scan_i, ap_value, caller>>

btIn == <<target, anchors, ignore_thres, nB, nA, nC, nG>>
btOut == <<obj_mask, noobj_mask, class_mask, iou_scores,
           tx, ty, tw, th, tcls, tconf>>
btVars == <<btIn, best_n, ignore_i, btOut>>

vars == <<pc, nmsVars, iouVars, gbsVars, apcVars, capVars, btVars>>

----------------------------------------------------------------------------
(* Rational arithmetic *)

Abs(x) == IF x < 0 THEN -x ELSE x

RECURSIVE GCD(_, _)
GCD(a, b) == IF b = 0 THEN a ELSE GCD(b, a % b)

NaN == [n |-> 0, d |-> 0]
IsNaN(a) == a.d = 0

\* n/d in lowest terms, d > 0; NaN when d = 0
R(n, d) ==
    IF d = 0 THEN NaN
    ELSE LET s == IF d < 0 THEN -1 ELSE 1
             g == GCD(Abs(n), Abs(d))
         IN [n |-> (s * n) \div g, d |-> (s * d) \div g]

RInt(k) == [n |-> k, d |-> 1]
RAdd(a, b) == R(a.n * b.d + b.n * a.d, a.d * b.d)
RSub(a, b) == R(a.n * b.d - b.n * a.d, a.d * b.d)
RMul(a, b) == R(a.n * b.n, a.d * b.d)
RHalf(a) == R(a.n, 2 * a.d)
RLt(a, b) == ~IsNaN(a) /\ ~IsNaN(b) /\ a.n * b.d < b.n * a.d
RLe(a, b) == ~IsNaN(a) /\ ~IsNaN(b) /\ a.n * b.d <= b.n * a.d
RMax(a, b) == IF IsNaN(a) \/ IsNaN(b) THEN NaN ELSE IF RLt(a, b) THEN b ELSE a
RMin(a, b) == IF IsNaN(a) \/ IsNaN(b) THEN NaN ELSE IF RLt(b, a) THEN b ELSE a
RFloor(a) == a.n \div a.d
\* a / b; a / (b + 1e-16) is the same float when |b| >= 1; 0 / 0 is NaN
RDiv(a, b) == R(a.n * b.d, a.d * b.n)
Zero == RInt(0)
One == RInt(1)

RECURSIVE RSum(_)
RSum(s) == IF s = <<>> THEN Zero ELSE RAdd(Head(s), RSum(Tail(s)))

Range(s) == {s[k] : k \in DOMAIN s}

RECURSIVE Filter(_, _)
\* the rows of s whose index is in the set keep, in order (boolean-mask indexing)
Filter(s, keep) ==
    IF s = <<>> THEN <<>>
    ELSE LET n == Len(s)
             front == Filter(SubSeq(s, 1, n - 1), keep)
         IN IF n \in keep THEN Append(front, s[n]) ELSE front

----------------------------------------------------------------------------
(* Geometry *)

\* xywh2xyxy: (cx, cy, w, h) -> (x1, y1, x2, y2)
xywh2xyxy(x) ==
    << RSub(x[1], RHalf(x[3])), RSub(x[2], RHalf(x[4])),
       RAdd(x[1], RHalf(x[3])), RAdd(x[2], RHalf(x[4])) >>

\* clamp(v, min=0)
Clamp0(v) == RMax(v, Zero)

\* intersection area of two corner-form boxes, with the +1 of bbox_iou
InterArea(b1, b2) ==
    LET ix1 == RMax(b1[1], b2[1])
        iy1 == RMax(b1[2], b2[2])
        ix2 == RMin(b1[3], b2[3])
        iy2 == RMin(b1[4], b2[4])
    IN RMul(Clamp0(RAdd(RSub(ix2, ix1), One)), Clamp0(RAdd(RSub(iy2, iy1), One)))

BoxArea(b) == RMul(RAdd(RSub(b[3], b[1]), One), RAdd(RSub(b[4], b[2]), One))

\* bbox_iou(box1, box2, x1y1x2y2=True) for one pair of boxes
bbox_iou(b1, b2) ==
    LET inter == InterArea(b1, b2)
        union == RSub(RAdd(BoxArea(b1), BoxArea(b2)), inter)
    IN IF ~IsNaN(union) /\ union.n = 0 /\ inter.n = 0
       THEN Zero   \* 0 / 1e-16
       ELSE RDiv(inter, union)

\* bbox_iou(box1, box2, x1y1x2y2=False): both boxes converted first
bbox_iou_xywh(b1, b2) == bbox_iou(xywh2xyxy(b1), xywh2xyxy(b2))

\* float comparisons a > b and a >= b; false when either side is NaN
Gt(a, b) == RLt(b, a)
Ge(a, b) == RLe(b, a)

----------------------------------------------------------------------------
(* The state of a function that is not the one being executed *)

NmsIdle ==
    /\ prediction = <<>>
    /\ prediction_in = <<>>
    /\ conf_thres = Zero
    /\ nms_thres = Zero
    /\ image_i = 0
    /\ detections = <<>>
    /\ keep_boxes = <<>>
    /\ output = <<>>
    /\ first_output = <<>>
    /\ pass = 0

IouIdle ==
    /\ box1 = <<>>
    /\ box2 = <<>>
    /\ x1y1x2y2 = TRUE
    /\ iou = Zero

GbsIdle ==
    /\ outputs = <<>>
    /\ targets = <<>>
    /\ iou_threshold = Zero
    /\ sample_i = 0
    /\ pred_i = 0
    /\ detected_boxes = <<>>
    /\ true_positives = <<>>
    /\ batch_metrics = <<>>

ApcIdle ==
    /\ tp = <<>>
    /\ conf = <<>>
    /\ pred_cls = <<>>
    /\ target_cls = <<>>
    /\ unique_classes = <<>>
    /\ class_k = 0
    /\ ap = <<>>
    /\ p = <<>>
    /\ r = <<>>
    /\ f1 = <<>>

CapIdle ==
    /\ recall = <<>>
    /\ precision = <<>>
    /\ mrec = <<>>
    /\ mpre = <<>>
    /\ scan_i = 0
    /\ ap_value = Zero
    /\ caller = "none"

BtIdle ==
    /\ target = <<>>
    /\ anchors = <<>>
    /\ ignore_thres = Zero
    /\ nB = 0
    /\ nA = 0
    /\ nC = 0
    /\ nG = 0
    /\ best_n = <<>>
    /\ ignore_i = 0
    /\ obj_mask = <<>>
    /\ noobj_mask = <<>>
    /\ class_mask = <<>>
    /\ iou_scores = <<>>
    /\ tx = <<>>
    /\ ty = <<>>
    /\ tw = <<>>
    /\ th = <<>>
    /\ tcls = <<>>
    /\ tconf = <<>>

nonNms == <<iouVars, gbsVars, apcVars, capVars, btVars>>
nonIou == <<nmsVars, gbsVars, apcVars, capVars, btVars>>
nonGbs == <<nmsVars, iouVars, apcVars, capVars, btVars>>
nonAp == <<nmsVars, iouVars, gbsVars, btVars>>
nonBt == <<nmsVars, iouVars, gbsVars, apcVars, capVars>>

----------------------------------------------------------------------------
(* Inputs of non_max_suppression *)

MaxCand == 3    \* candidates per image
MaxIter == 5    \* cap on the iterations of a merge loop that does not end

\* one raw candidate in center-size form with two class scores
Cand(cx, c, k) ==
    [box  |-> <<RInt(cx), RInt(1), RInt(4), RInt(2)>>,
     conf |-> R(c, 10),
     cls  |-> IF k = 0 THEN <<R(8, 10), R(1, 10)>> ELSE <<R(1, 10), R(8, 10)>>]

CandUniverse ==
    << Cand(2, 9, 0), Cand(2, 5, 0), Cand(4, 9, 0), Cand(4, 5, 0),
       Cand(5, 9, 0), Cand(5, 5, 0), Cand(4, 9, 1), Cand(4, 5, 1) >>

\* (conf_thres, nms_thres) pairs, two of them outside [0,1]
Thresholds ==
    { <<R(5, 10), R(4, 10)>>, <<R(6, 10), R(4, 10)>>, <<R(5, 10), One>>,
      <<R(11, 10), R(4, 10)>>, <<R(5, 10), R(-1, 10)>> }

InUnit(t) == RLe(Zero, t) /\ RLe(t, One)

\* index sequences of length n in non-decreasing order: one per multiset
NonDec(n, m) ==
    {s \in [1..n -> 1..m] : \A i \in 1..n, j \in 1..n : i < j => s[i] <= s[j]}

\* the batches: image 1 is any multiset of n candidates; image 2, when the
\* batch has one (u > 0), repeats one of the first two candidates n times
\* (the batch is a tensor: every image has the same number of rows)
Batches ==
    LET m == Len(CandUniverse)
    IN UNION { { IF u = 0
                 THEN << [k \in 1..n |-> CandUniverse[s[k]]] >>
                 ELSE << [k \in 1..n |-> CandUniverse[s[k]]],
                         [k \in 1..n |-> CandUniverse[u]] >>
                 : s \in NonDec(n, m), u \in 0..2 }
               : n \in 1..MaxCand }

----------------------------------------------------------------------------
(* non_max_suppression *)

\* image_pred[:, 5:].max(1): value and index (0-based class id)
RECURSIVE SeqMax(_)
SeqMax(s) == IF Len(s) = 1 THEN s[1] ELSE RMax(s[1], SeqMax(Tail(s)))

ClassConf(row) == SeqMax(row.cls)
ClassPred(row) ==
    (CHOOSE k \in DOMAIN row.cls :
        /\ row.cls[k] = ClassConf(row)
        /\ \A j \in DOMAIN row.cls : row.cls[j] = ClassConf(row) => k <= j) - 1

\* score = image_pred[:, 4] * image_pred[:, 5:].max(1)[0]
Score(row) == RMul(row.conf, ClassConf(row))

\* an entry of the output list: None, or torch.stack(keep_boxes)
None == [is_none |-> TRUE, rows |-> <<>>]
Stack(rows) == [is_none |-> FALSE, rows |-> rows]

\* every row of the batch to corner form (line 243, in place)
ConvertBatch(pred) ==
    [i \in DOMAIN pred |->
        [k \in DOMAIN pred[i] |->
            [pred[i][k] EXCEPT !.box = xywh2xyxy(pred[i][k].box)]]]

\* a variant of the filter below that lets every candidate through
ConfMaskAll(image, thres) == DOMAIN image

\* image_pred[:, 4] >= conf_thres
ConfMask(image, thres) == {k \in DOMAIN image : Ge(image[k].conf, thres)}

Survivors(image, thres) == Filter(image, ConfMask(image, thres))

\* the orders (-score).argsort() may return: any permutation that puts the
\* scores in non-increasing order (the sort is not stable)
ArgSorts(rows) ==
    LET n == Len(rows)
    IN {perm \in [1..n -> 1..n] :
            /\ \A i \in 1..n, j \in 1..n : i # j => perm[i] # perm[j]
            /\ \A i \in 1..(n - 1) :
                  RLe(Score(rows[perm[i + 1]]), Score(rows[perm[i]]))}

\* torch.cat((image_pred[:, :5], class_confs, class_preds), 1)
DetRow(row) ==
    [box |-> row.box, conf |-> row.conf,
     cls_conf |-> ClassConf(row), cls_pred |-> ClassPred(row)]

\* large_overlap & label_match against detections[0]
Invalid(dets, thres) ==
    {k \in DOMAIN dets :
        /\ Gt(bbox_iou(dets[1].box, dets[k].box), thres)
        /\ dets[1].cls_pred = dets[k].cls_pred}

\* (weights * detections[invalid, :4]).sum(0) / weights.sum()
Merged(dets, invalid) ==
    LET rows == Filter(dets, invalid)
        wsum == RSum([k \in DOMAIN rows |-> rows[k].conf])
    IN [c \in 1..4 |->
           RDiv(RSum([k \in DOMAIN rows |-> RMul(rows[k].conf, rows[k].box[c])]),
                wsum)]

\* detections[~invalid]
Remaining(dets, invalid) == Filter(dets, DOMAIN dets \ invalid)

NmsConvert ==
    /\ pc = "nms_entry"
    /\ prediction' = ConvertBatch(prediction)
    /\ output' = [i \in DOMAIN prediction |-> None]
    /\ image_i' = 1
    /\ pc' = "nms_image"
    /\ UNCHANGED <<prediction_in, conf_thres, nms_thres, detections,
                   keep_boxes, first_output, pass>>
    /\ UNCHANGED nonNms

\* lines 247-250: nothing survives the confidence filter, next image
NmsSkipImage ==
    /\ pc = "nms_image"
    /\ image_i <= Len(prediction)
    /\ Survivors(prediction[image_i], conf_thres) = <<>>
    /\ image_i' = image_i + 1
    /\ UNCHANGED <<pc, prediction, prediction_in, conf_thres, nms_thres,
                   detections, keep_boxes, output, first_output, pass>>
    /\ UNCHANGED nonNms

\* lines 247-258: filter, score, sort, build the detections tensor
NmsPrepareImage ==
    /\ pc = "nms_image"
    /\ image_i <= Len(prediction)
    /\ LET image_pred == Survivors(prediction[image_i], conf_thres)
       IN /\ image_pred # <<>>
          /\ \E perm \in ArgSorts(image_pred) :
                detections' = [k \in DOMAIN image_pred |-> DetRow(image_pred[perm[k]])]
    /\ keep_boxes' = <<>>
    /\ pc' = "nms_while"
    /\ UNCHANGED <<prediction, prediction_in, conf_thres, nms_thres, image_i,
                   output, first_output, pass>>
    /\ UNCHANGED nonNms

\* lines 259-268: one iteration of the merge loop
NmsIter ==
    /\ pc = "nms_while"
    /\ detections # <<>>
    /\ Len(keep_boxes) < MaxIter
    /\ LET invalid == Invalid(detections, nms_thres)
           merged == [detections EXCEPT ![1].box = Merged(detections, invalid)]
       IN /\ keep_boxes' = Append(keep_boxes, merged[1])
          /\ detections' = Remaining(merged, invalid)
    /\ UNCHANGED <<pc, prediction, prediction_in, conf_thres, nms_thres,
                   image_i, output, first_output, pass>>
    /\ UNCHANGED nonNms

\* lines 269-270: the pool is empty, store the image's result
NmsStore ==
    /\ pc = "nms_while"
    /\ detections = <<>>
    /\ output' = IF keep_boxes # <<>>
                 THEN [output EXCEPT ![image_i] = Stack(keep_boxes)]
                 ELSE output
    /\ image_i' = image_i + 1
    /\ pc' = "nms_image"
    /\ UNCHANGED <<prediction, prediction_in, conf_thres, nms_thres,
                   detections, keep_boxes, first_output, pass>>
    /\ UNCHANGED nonNms

\* line 272
NmsReturn ==
    /\ pc = "nms_image"
    /\ image_i > Len(prediction)
    /\ pc' = "nms_done"
    /\ UNCHANGED nmsVars
    /\ UNCHANGED nonNms

\* a detection row back in the input form: center-size box, objectness,
\* class scores with cls_conf at cls_pred and 0 elsewhere
InputRow(det, nc) ==
    [box  |-> << RHalf(RAdd(det.box[1], det.box[3])),
                 RHalf(RAdd(det.box[2], det.box[4])),
                 RSub(det.box[3], det.box[1]),
                 RSub(det.box[4], det.box[2]) >>,
     conf |-> det.conf,
     cls  |-> [k \in 1..nc |-> IF k = det.cls_pred + 1 THEN det.cls_conf ELSE Zero]]

\* the caller feeds one image's detections back with the same thresholds
NmsFeedBack ==
    /\ pc = "nms_done"
    /\ pass = 1
    /\ \E i \in DOMAIN output :
          /\ ~output[i].is_none
          /\ first_output' = output[i].rows
          /\ LET nc == Len(prediction_in[1][1].cls)
                 rows == output[i].rows
                 batch == << [k \in DOMAIN rows |-> InputRow(rows[k], nc)] >>
             IN /\ prediction' = batch
                /\ prediction_in' = batch
    /\ pass' = 2
    /\ pc' = "nms_entry"
    /\ image_i' = 0
    /\ detections' = <<>>
    /\ keep_boxes' = <<>>
    /\ output' = <<>>
    /\ UNCHANGED <<conf_thres, nms_thres>>
    /\ UNCHANGED nonNms

NmsInit ==
    /\ pc = "nms_entry"
    /\ prediction \in Batches
    /\ prediction_in = prediction
    /\ \E t \in Thresholds : conf_thres = t[1] /\ nms_thres = t[2]
    /\ image_i = 0
    /\ detections = <<>>
    /\ keep_boxes = <<>>
    /\ output = <<>>
    /\ first_output = <<>>
    /\ pass = 1
    /\ IouIdle
    /\ GbsIdle
    /\ ApcIdle
    /\ CapIdle
    /\ BtIdle

NmsNext ==
    \/ NmsConvert
    \/ NmsSkipImage
    \/ NmsPrepareImage
    \/ NmsIter
    \/ NmsStore
    \/ NmsReturn
    \/ NmsFeedBack

SpecNMS == NmsInit /\ [][NmsNext]_vars

----------------------------------------------------------------------------
(* Properties of non_max_suppression *)

\* the number of candidates of image i with objectness >= conf_thres
NumSurvivors(i) ==
    Cardinality({k \in DOMAIN prediction[i] : RLe(conf_thres, prediction[i][k].conf)})

\* C2: with both thresholds in [0,1], every iteration of the merge loop
\* removes at least the top candidate from the pool, so the detections
\* emitted so far plus the candidates still in the pool never exceed the
\* number of candidates that survived the confidence filter (at most n
\* iterations for n survivors).
C2_MergeLoopBounded ==
    (pc = "nms_while" /\ InUnit(conf_thres) /\ InUnit(nms_thres))
        => Len(keep_boxes) + Len(detections) <= NumSurvivors(image_i)

\* C3: with both thresholds in [0,1], feeding an image's detections back
\* through non_max_suppression returns the same set of detections, with
\* the same boxes.
C3_Idempotent ==
    (pc = "nms_done" /\ pass = 2 /\ InUnit(conf_thres) /\ InUnit(nms_thres))
        => /\ ~output[1].is_none
           /\ Range(output[1].rows) = Range(first_output)

\* C4: when non_max_suppression returns, each image's detections are at
\* most as many as its candidates with objectness >= conf_thres, hence at
\* most as many as its candidates; an image without such a candidate has
\* the result None.
C4_OutputBounded ==
    pc = "nms_done" =>
        \A i \in DOMAIN output :
            /\ NumSurvivors(i) = 0 => output[i].is_none
            /\ ~output[i].is_none =>
                  /\ Len(output[i].rows) <= NumSurvivors(i)
                  /\ NumSurvivors(i) <= Len(prediction_in[i])

\* a returned batch of the caller with one image None (nothing at or above
\* conf_thres) and one image whose candidates were merged into fewer
\* detections
C4_Witness ==
    /\ pc = "nms_done"
    /\ pass = 1
    /\ \E i \in DOMAIN output : output[i].is_none /\ NumSurvivors(i) = 0
    /\ \E i \in DOMAIN output :
          /\ ~output[i].is_none
          /\ Len(output[i].rows) < NumSurvivors(i)
          /\ Len(output[i].rows) > 1

----------------------------------------------------------------------------
(* bbox_iou called on one pair of boxes *)

MaxCoord == 4   \* x coordinates are k/2 for k in 0..MaxCoord

\* corner-form boxes with x2 >= x1 and y2 >= y1, coordinates in half units
IouBoxes ==
    LET tuples == { <<R(a, 2), R(b, 2), R(c, 2), R(d, 2)>> :
                      a \in 0..MaxCoord, c \in 0..MaxCoord, b \in 0..2, d \in 0..2 }
    IN {bx \in tuples : RLe(bx[1], bx[3]) /\ RLe(bx[2], bx[4])}

IouCall ==
    /\ pc = "iou_entry"
    /\ iou' = IF x1y1x2y2 THEN bbox_iou(box1, box2) ELSE bbox_iou_xywh(box1, box2)
    /\ pc' = "iou_done"
    /\ UNCHANGED <<box1, box2, x1y1x2y2>>
    /\ UNCHANGED nonIou

IouInit ==
    /\ pc = "iou_entry"
    /\ box1 \in IouBoxes
    /\ box2 \in IouBoxes
    /\ x1y1x2y2 \in BOOLEAN
    /\ iou = Zero
    /\ NmsIdle
    /\ GbsIdle
    /\ ApcIdle
    /\ CapIdle
    /\ BtIdle

IouNext == IouCall

SpecIoU == IouInit /\ [][IouNext]_vars

\* the rectangles of two corner-form boxes do not overlap
NoOverlap(a, b) ==
    \/ RLt(a[3], b[1])
    \/ RLt(b[3], a[1])
    \/ RLt(a[4], b[2])
    \/ RLt(b[4], a[2])

\* C9: bbox_iou of two corner-form boxes whose rectangles do not overlap
\* is exactly 0, whatever the gap between them.
C9_DisjointIsZero ==
    (pc = "iou_done" /\ x1y1x2y2 /\ NoOverlap(box1, box2)) => iou = Zero

----------------------------------------------------------------------------
(* get_batch_statistics *)

MaxGT == 2      \* ground-truth boxes of the sample
MaxDet == 2     \* detections of the sample

IntBox(a, b, c, d) == <<RInt(a), RInt(b), RInt(c), RInt(d)>>

\* a detection as non_max_suppression returns it
Det(bx, label) ==
    [box |-> bx, conf |-> R(9, 10), cls_conf |-> R(8, 10), cls_pred |-> label]

DetUniverse ==
    << Det(IntBox(0, 0, 4, 2), 0), Det(IntBox(0, 0, 4, 2), 1),
       Det(IntBox(2, 0, 6, 2), 0), Det(IntBox(2, 0, 6, 2), 1) >>

\* ground truth (label, box) of the sample
GTUniverse ==
    << <<0, IntBox(0, 0, 4, 2)>>, <<1, IntBox(0, 0, 4, 2)>>,
       <<0, IntBox(2, 0, 6, 2)>>, <<1, IntBox(2, 0, 6, 2)>>,
       <<0, IntBox(10, 0, 14, 2)>>, <<1, IntBox(10, 0, 14, 2)>> >>

IouThresholds == {R(2, 5), R(7, 10), RInt(2)}

TargetRow(sample, gt) == [sample |-> sample, label |-> gt[1], box |-> gt[2]]

\* a call: one sample with the detections d and the ground-truth boxes g,
\* alone (lead = 0) or after a sample whose output is None and which has
\* one ground-truth box of its own (lead = 1)
GbsCall(d, g, lead) ==
    [outputs |-> (IF lead = 1 THEN <<None>> ELSE <<>>)
                 \o << Stack([k \in DOMAIN d |-> DetUniverse[d[k]]]) >>,
     targets |-> (IF lead = 1 THEN <<TargetRow(0, GTUniverse[1])>> ELSE <<>>)
                 \o [k \in DOMAIN g |-> TargetRow(lead, GTUniverse[g[k]])]]

\* targets[targets[:, 0] == sample_i][:, 1:] (the code's sample_i is 0-based)
Annotations(i) == Filter(targets, {k \in DOMAIN targets : targets[k].sample = i - 1})

TargetLabels(i) == {Annotations(i)[k].label : k \in DOMAIN Annotations(i)}

\* np.zeros(pred_boxes.shape[0])
Zeros(n) == [k \in 1..n |-> 0]

\* bbox_iou(pred_box.unsqueeze(0), target_boxes): against every annotation
IouRow(pred_box, annotations) ==
    [k \in DOMAIN annotations |-> bbox_iou(pred_box, annotations[k].box)]

\* .max(0): the maximum and the indices at which it may be reported
MaxIndices(ious) ==
    {k \in DOMAIN ious : \A j \in DOMAIN ious : RLe(ious[j], ious[k])}

\* [true_positives, pred_scores, pred_labels] of the sample
Metrics(flags, rows) ==
    [true_positives |-> flags,
     pred_scores |-> [k \in DOMAIN rows |-> rows[k].conf],
     pred_labels |-> [k \in DOMAIN rows |-> rows[k].cls_pred]]

GbsEnter ==
    /\ pc = "gbs_entry"
    /\ batch_metrics' = <<>>
    /\ sample_i' = 1
    /\ pc' = "gbs_sample"
    /\ UNCHANGED <<outputs, targets, iou_threshold, pred_i, detected_boxes,
                   true_positives>>
    /\ UNCHANGED nonGbs

\* lines 158-159
GbsSkipNone ==
    /\ pc = "gbs_sample"
    /\ sample_i <= Len(outputs)
    /\ outputs[sample_i].is_none
    /\ sample_i' = sample_i + 1
    /\ UNCHANGED <<pc, outputs, targets, iou_threshold, pred_i, detected_boxes,
                   true_positives, batch_metrics>>
    /\ UNCHANGED nonGbs

\* lines 161-170 and 188: a sample without annotations
GbsNoAnnotations ==
    /\ pc = "gbs_sample"
    /\ sample_i <= Len(outputs)
    /\ ~outputs[sample_i].is_none
    /\ Annotations(sample_i) = <<>>
    /\ LET rows == outputs[sample_i].rows
       IN /\ true_positives' = Zeros(Len(rows))
          /\ batch_metrics' = Append(batch_metrics, Metrics(Zeros(Len(rows)), rows))
    /\ sample_i' = sample_i + 1
    /\ UNCHANGED <<pc, outputs, targets, iou_threshold, pred_i, detected_boxes>>
    /\ UNCHANGED nonGbs

\* lines 161-172: a sample with annotations, before its first detection
GbsBeginSample ==
    /\ pc = "gbs_sample"
    /\ sample_i <= Len(outputs)
    /\ ~outputs[sample_i].is_none
    /\ Annotations(sample_i) # <<>>
    /\ true_positives' = Zeros(Len(outputs[sample_i].rows))
    /\ detected_boxes' = <<>>
    /\ pred_i' = 1
    /\ pc' = "gbs_pred"
    /\ UNCHANGED <<outputs, targets, iou_threshold, sample_i, batch_metrics>>
    /\ UNCHANGED nonGbs

\* lines 181-182: the label is not one of the target labels
GbsIgnore ==
    /\ pc = "gbs_pred"
    /\ pred_i <= Len(outputs[sample_i].rows)
    /\ Len(detected_boxes) # Len(Annotations(sample_i))
    /\ outputs[sample_i].rows[pred_i].cls_pred \notin TargetLabels(sample_i)
    /\ pred_i' = pred_i + 1
    /\ UNCHANGED <<pc, outputs, targets, iou_threshold, sample_i, detected_boxes,
                   true_positives, batch_metrics>>
    /\ UNCHANGED nonGbs

\* lines 184-187: the best box over all annotations, claimed when its IoU
\* reaches the threshold and it is not claimed yet
GbsMatch ==
    /\ pc = "gbs_pred"
    /\ pred_i <= Len(outputs[sample_i].rows)
    /\ Len(detected_boxes) # Len(Annotations(sample_i))
    /\ outputs[sample_i].rows[pred_i].cls_pred \in TargetLabels(sample_i)
    /\ LET ious == IouRow(outputs[sample_i].rows[pred_i].box, Annotations(sample_i))
       IN \E box_index \in MaxIndices(ious) :
             IF Ge(ious[box_index], iou_threshold)
                /\ box_index \notin Range(detected_boxes)
             THEN /\ true_positives' = [true_positives EXCEPT ![pred_i] = 1]
                  /\ detected_boxes' = Append(detected_boxes, box_index)
             ELSE UNCHANGED <<true_positives, detected_boxes>>
    /\ pred_i' = pred_i + 1
    /\ UNCHANGED <<pc, outputs, targets, iou_threshold, sample_i, batch_metrics>>
    /\ UNCHANGED nonGbs

\* lines 177-178 and 188: every box is claimed or the detections are
\* exhausted; the sample's row is appended
GbsEndSample ==
    /\ pc = "gbs_pred"
    /\ \/ pred_i > Len(outputs[sample_i].rows)
       \/ Len(detected_boxes) = Len(Annotations(sample_i))
    /\ batch_metrics' =
          Append(batch_metrics, Metrics(true_positives, outputs[sample_i].rows))
    /\ sample_i' = sample_i + 1
    /\ pc' = "gbs_sample"
    /\ UNCHANGED <<outputs, targets, iou_threshold, pred_i, detected_boxes,
                   true_positives>>
    /\ UNCHANGED nonGbs

\* line 189
GbsReturn ==
    /\ pc = "gbs_sample"
    /\ sample_i > Len(outputs)
    /\ pc' = "gbs_done"
    /\ UNCHANGED gbsVars
    /\ UNCHANGED nonGbs

GbsInit ==
    /\ pc = "gbs_entry"
    /\ \E nd \in 1..MaxDet, ng \in 0..MaxGT, lead \in 0..1 :
          \E d \in [1..nd -> 1..Len(DetUniverse)] :
             \E g \in NonDec(ng, Len(GTUniverse)) :
                /\ outputs = GbsCall(d, g, lead).outputs
                /\ targets = GbsCall(d, g, lead).targets
    /\ iou_threshold \in IouThresholds
    /\ sample_i = 0
    /\ pred_i = 0
    /\ detected_boxes = <<>>
    /\ true_positives = <<>>
    /\ batch_metrics = <<>>
    /\ NmsIdle
    /\ IouIdle
    /\ ApcIdle
    /\ CapIdle
    /\ BtIdle

GbsNext ==
    \/ GbsEnter
    \/ GbsSkipNone
    \/ GbsNoAnnotations
    \/ GbsBeginSample
    \/ GbsIgnore
    \/ GbsMatch
    \/ GbsEndSample
    \/ GbsReturn

SpecGBS == GbsInit /\ [][GbsNext]_vars

\* the number of true positives among the first k detections of the sample
RECURSIVE TPCount(_)
TPCount(k) == IF k = 0 THEN 0 ELSE true_positives[k] + TPCount(k - 1)

\* the ground-truth box claimed by true-positive detection k
ClaimOf(k) == detected_boxes[TPCount(k)]

\* C1: in a sample whose ground truth has boxes of two different classes,
\* a detection marked true-positive has claimed a ground-truth box of its
\* own predicted class.
C1_ClaimsOwnClass ==
    (pc = "gbs_pred" /\ Cardinality(TargetLabels(sample_i)) >= 2)
        => \A k \in DOMAIN true_positives :
              true_positives[k] = 1
                 => Annotations(sample_i)[ClaimOf(k)].label
                        = outputs[sample_i].rows[k].cls_pred


\* the boxes claimed before the detection handled last (pred_i - 1) was
\* handled
ClaimedBefore ==
    IF true_positives[pred_i - 1] = 1
    THEN SubSeq(detected_boxes, 1, Len(detected_boxes) - 1)
    ELSE detected_boxes

\* the IoU of the detection handled last with every box of the sample
LastIous == IouRow(outputs[sample_i].rows[pred_i - 1].box, Annotations(sample_i))

\* the boxes not claimed before the detection handled last that reach the
\* threshold with it
Claimable ==
    {k \in DOMAIN LastIous :
        k \notin Range(ClaimedBefore) /\ RLe(iou_threshold, LastIous[k])}

\* C12: a detection whose class is present in the image is matched against
\* the boxes not yet claimed: when not all boxes are claimed and some
\* unclaimed box reaches iou_threshold with it, it is marked true-positive
\* and claims its best unclaimed box, whatever earlier detections have
\* claimed; every box is claimed at most once and the true positives of
\* an image never exceed its number of ground-truth boxes.
C12_MatchesUnclaimed ==
    (pc = "gbs_pred" /\ pred_i > 1) =>
        /\ \A i \in DOMAIN detected_boxes, j \in DOMAIN detected_boxes :
              detected_boxes[i] = detected_boxes[j] => i = j
        /\ TPCount(Len(true_positives)) <= Len(Annotations(sample_i))
        /\ ( /\ outputs[sample_i].rows[pred_i - 1].cls_pred \in TargetLabels(sample_i)
             /\ Len(ClaimedBefore) < Len(Annotations(sample_i))
             /\ Claimable # {} )
           => /\ true_positives[pred_i - 1] = 1
              /\ detected_boxes[Len(detected_boxes)] \in Claimable
              /\ \A k \in Claimable :
                    RLe(LastIous[k], LastIous[detected_boxes[Len(detected_boxes)]])

----------------------------------------------------------------------------
(* compute_ap *)

MaxCurve == 3   \* length of the curves of a direct call of compute_ap

CurveValues == {Zero, R(1, 2), One}

\* a variant of the step below that writes the maximum at i instead of i - 1
EnvStepAt(m, i) == [m EXCEPT ![i] = RMax(m[i - 1], m[i])]

\* one step of the envelope scan: mpre[i - 1] = max(mpre[i - 1], mpre[i])
\* (i is the code's index plus one)
EnvStep(m, i) == [m EXCEPT ![i - 1] = RMax(m[i - 1], m[i])]

\* np.where(mrec[1:] != mrec[:-1])[0], as 1-based indices
RecallChanges(m) == {i \in 1..(Len(m) - 1) : m[i + 1] # m[i]}

RECURSIVE SumOver(_, _, _)
\* np.sum((mrec[i + 1] - mrec[i]) * mpre[i + 1]) over the indices in idx
SumOver(idx, mr, mp) ==
    IF idx = {} THEN Zero
    ELSE LET i == CHOOSE j \in idx : TRUE
         IN RAdd(RMul(RSub(mr[i + 1], mr[i]), mp[i + 1]),
                 SumOver(idx \ {i}, mr, mp))

\* lines 137-138: the sentinels
CapPad ==
    /\ pc = "cap_entry"
    /\ mrec' = <<Zero>> \o recall \o <<One>>
    /\ mpre' = <<Zero>> \o precision \o <<Zero>>
    /\ scan_i' = Len(precision) + 2
    /\ pc' = "cap_scan"
    /\ UNCHANGED <<recall, precision, ap_value, caller>>
    /\ UNCHANGED <<apcVars, nonAp>>

\* lines 141-142: one iteration of the backward scan
CapScan ==
    /\ pc = "cap_scan"
    /\ scan_i > 1
    /\ mpre' = EnvStep(mpre, scan_i)
    /\ scan_i' = scan_i - 1
    /\ UNCHANGED <<pc, recall, precision, mrec, ap_value, caller>>
    /\ UNCHANGED <<apcVars, nonAp>>

\* lines 146-150: the area under the envelope
CapIntegrate ==
    /\ pc = "cap_scan"
    /\ scan_i <= 1
    /\ ap_value' = SumOver(RecallChanges(mrec), mrec, mpre)
    /\ pc' = "cap_done"
    /\ UNCHANGED <<recall, precision, mrec, mpre, scan_i, caller>>
    /\ UNCHANGED <<apcVars, nonAp>>

CapInit ==
    /\ pc = "cap_entry"
    /\ \E n \in 0..MaxCurve :
          /\ recall \in [1..n -> CurveValues]
          /\ precision \in [1..n -> CurveValues]
    /\ mrec = <<>>
    /\ mpre = <<>>
    /\ scan_i = 0
    /\ ap_value = Zero
    /\ caller = "direct"
    /\ NmsIdle
    /\ IouIdle
    /\ GbsIdle
    /\ ApcIdle
    /\ BtIdle

CapNext ==
    \/ CapPad
    \/ CapScan
    \/ CapIntegrate

SpecCAP == CapInit /\ [][CapNext]_vars

----------------------------------------------------------------------------
(* ap_per_class *)

MaxPred == 3        \* predictions in a call of ap_per_class
MaxTargetCls == 2   \* ground-truth objects in a call of ap_per_class

Classes == {0, 1}

\* the confidences of n predictions, in descending or ascending order
ConfOrders(n) ==
    { [k \in 1..n |-> R(10 - k, 10)], [k \in 1..n |-> R(9 - n + k, 10)] }

\* np.argsort(-conf): the orders that put conf in non-increasing order
ConfSorts(cf) ==
    LET n == Len(cf)
    IN {perm \in [1..n -> 1..n] :
            /\ \A i \in 1..n, j \in 1..n : i # j => perm[i] # perm[j]
            /\ \A i \in 1..(n - 1) : RLe(cf[perm[i + 1]], cf[perm[i]])}

RECURSIVE Ascending(_)
\* the elements of a set of integers as an ascending sequence (np.unique)
Ascending(S) ==
    IF S = {} THEN <<>>
    ELSE LET m == CHOOSE x \in S : \A y \in S : x <= y
         IN <<m>> \o Ascending(S \ {m})

Unique(cls) == Ascending(Range(cls))

\* the positions at which a class occurs, and how many there are
Where(cls, c) == {k \in DOMAIN cls : cls[k] = c}
Count(cls, c) == Cardinality(Where(cls, c))

RECURSIVE CumSum(_)
CumSum(s) ==
    IF s = <<>> THEN <<>>
    ELSE LET front == CumSum(SubSeq(s, 1, Len(s) - 1))
         IN Append(front, (IF front = <<>> THEN 0 ELSE front[Len(front)]) + s[Len(s)])

\* a variant of the recall below that divides by the number of predictions
RecallCurveByPreds(tpc, n_gt) == [k \in DOMAIN tpc |-> R(tpc[k], Len(tpc))]

\* tpc / (n_gt + 1e-16)
RecallCurve(tpc, n_gt) == [k \in DOMAIN tpc |-> R(tpc[k], n_gt)]

\* tpc / (tpc + fpc)
PrecisionCurve(tpc, fpc) == [k \in DOMAIN tpc |-> R(tpc[k], tpc[k] + fpc[k])]

\* 2 * p * r / (p + r + 1e-16); 0 when p + r = 0
F1(pv, rv) ==
    IF RAdd(pv, rv) = Zero THEN Zero
    ELSE RDiv(RMul(RInt(2), RMul(pv, rv)), RAdd(pv, rv))

\* lines 83-90: sort by confidence, find the classes of the ground truth
ApcSort ==
    /\ pc = "apc_entry"
    /\ \E perm \in ConfSorts(conf) :
          /\ tp' = [k \in DOMAIN tp |-> tp[perm[k]]]
          /\ conf' = [k \in DOMAIN conf |-> conf[perm[k]]]
          /\ pred_cls' = [k \in DOMAIN pred_cls |-> pred_cls[perm[k]]]
    /\ unique_classes' = Unique(target_cls)
    /\ ap' = <<>>
    /\ p' = <<>>
    /\ r' = <<>>
    /\ class_k' = 1
    /\ pc' = "apc_class"
    /\ UNCHANGED <<target_cls, f1>>
    /\ UNCHANGED <<capVars, nonAp>>

\* lines 92-101: a class without predictions or without ground truth
ApcZero ==
    /\ pc = "apc_class"
    /\ class_k <= Len(unique_classes)
    /\ LET c == unique_classes[class_k]
           n_gt == Count(target_cls, c)
           n_p == Count(pred_cls, c)
       IN /\ n_p = 0 \/ n_gt = 0
          /\ IF n_p = 0 /\ n_gt = 0
             THEN UNCHANGED <<ap, r, p>>
             ELSE /\ ap' = Append(ap, Zero)
                  /\ r' = Append(r, Zero)
                  /\ p' = Append(p, Zero)
    /\ class_k' = class_k + 1
    /\ UNCHANGED <<pc, tp, conf, pred_cls, target_cls, unique_classes, f1>>
    /\ UNCHANGED <<capVars, nonAp>>

\* lines 92-116: the curves of a class, up to the call of compute_ap
ApcCurves ==
    /\ pc = "apc_class"
    /\ class_k <= Len(unique_classes)
    /\ LET c == unique_classes[class_k]
           n_gt == Count(target_cls, c)
           n_p == Count(pred_cls, c)
           tpi == Filter(tp, Where(pred_cls, c))
           fpc == CumSum([k \in DOMAIN tpi |-> 1 - tpi[k]])
           tpc == CumSum(tpi)
           recall_curve == RecallCurve(tpc, n_gt)
           precision_curve == PrecisionCurve(tpc, fpc)
       IN /\ n_p # 0 /\ n_gt # 0
          /\ r' = Append(r, recall_curve[Len(recall_curve)])
          /\ p' = Append(p, precision_curve[Len(precision_curve)])
          /\ recall' = recall_curve
          /\ precision' = precision_curve
    /\ caller' = "ap_per_class"
    /\ pc' = "cap_entry"
    /\ UNCHANGED <<tp, conf, pred_cls, target_cls, unique_classes, class_k, ap, f1>>
    /\ UNCHANGED <<mrec, mpre, scan_i, ap_value>>
    /\ UNCHANGED nonAp

\* line 116: ap.append(...) on the return of compute_ap
ApcAppend ==
    /\ pc = "cap_done"
    /\ caller = "ap_per_class"
    /\ ap' = Append(ap, ap_value)
    /\ class_k' = class_k + 1
    /\ pc' = "apc_class"
    /\ UNCHANGED <<tp, conf, pred_cls, target_cls, unique_classes, p, r, f1>>
    /\ UNCHANGED <<capVars, nonAp>>

\* lines 119-122
ApcReturn ==
    /\ pc = "apc_class"
    /\ class_k > Len(unique_classes)
    /\ f1' = [k \in DOMAIN p |-> F1(p[k], r[k])]
    /\ pc' = "apc_done"
    /\ UNCHANGED <<tp, conf, pred_cls, target_cls, unique_classes, class_k, ap, p, r>>
    /\ UNCHANGED <<capVars, nonAp>>

ApcInit ==
    /\ pc = "apc_entry"
    /\ \E n \in 0..MaxPred :
          /\ tp \in [1..n -> {0, 1}]
          /\ pred_cls \in [1..n -> Classes]
          /\ conf \in ConfOrders(n)
    /\ \E n \in 0..MaxTargetCls :
          \E s \in NonDec(n, Cardinality(Classes)) :
             target_cls = [k \in 1..n |-> s[k] - 1]
    /\ unique_classes = <<>>
    /\ class_k = 0
    /\ ap = <<>>
    /\ p = <<>>
    /\ r = <<>>
    /\ f1 = <<>>
    /\ CapIdle
    /\ NmsIdle
    /\ IouIdle
    /\ GbsIdle
    /\ BtIdle

ApcNext ==
    \/ ApcSort
    \/ ApcZero
    \/ ApcCurves
    \/ CapPad
    \/ CapScan
    \/ CapIntegrate
    \/ ApcAppend
    \/ ApcReturn

SpecAPC == ApcInit /\ [][ApcNext]_vars

----------------------------------------------------------------------------
(* Properties of compute_ap and ap_per_class *)

\* the padded precision before the scan
PaddedPrecision == <<Zero>> \o precision \o <<Zero>>

\* v is the maximum of the values of m at indices >= i
IsMaxFrom(v, m, i) ==
    /\ \E j \in i..Len(m) : m[j] = v
    /\ \A j \in i..Len(m) : RLe(m[j], v)

\* C5: after the backward scan of compute_ap the padded precision is
\* non-increasing in index, and each entry is the maximum of the original
\* padded precision values at its index and to its right; for any curves,
\* sorted or not.
C5_EnvelopeNonIncreasing ==
    pc = "cap_done" =>
        /\ \A i \in 1..(Len(mpre) - 1) : RLe(mpre[i + 1], mpre[i])
        /\ \A i \in 1..Len(mpre) : IsMaxFrom(mpre[i], PaddedPrecision, i)

\* a direct call with a precision curve that is not sorted, which the
\* scan has changed
C5_Witness ==
    /\ pc = "cap_done"
    /\ caller = "direct"
    /\ Len(precision) >= 3
    /\ RLt(precision[2], precision[1])
    /\ RLt(precision[2], precision[3])
    /\ mpre # PaddedPrecision

\* the call of the example: one class c with, by descending confidence,
\* TP (0.9), FP (0.8), TP (0.7), and 2 ground-truth boxes of class c
C6_Example(c) ==
    /\ tp = <<1, 0, 1>>
    /\ conf = <<R(9, 10), R(8, 10), R(7, 10)>>
    /\ pred_cls = <<c, c, c>>
    /\ target_cls = <<c, c>>

\* C6: for the example ap_per_class returns recall 1, precision 2/3 and
\* AP (1/2 - 0) * 1 + (1 - 1/2) * 2/3 = 5/6 for the class.
C6_ExampleAP ==
    \A c \in Classes :
        (pc = "apc_done" /\ C6_Example(c))
            => /\ unique_classes = <<c>>
               /\ r = <<One>>
               /\ p = <<R(2, 3)>>
               /\ ap = <<R(5, 6)>>

\* the example has been computed to the end
C6_Witness ==
    /\ pc = "apc_done"
    /\ C6_Example(0)
    /\ Len(ap) = 1

\* the position of class c in a result list
IndexOf(c) == CHOOSE k \in DOMAIN unique_classes : unique_classes[k] = c

\* C7: every class with ground truth or with predictions has an entry in
\* the result of ap_per_class; when it has no predictions or no ground
\* truth, its AP, precision and recall are 0.
C7_ZeroEntries ==
    pc = "apc_done" =>
        \A c \in Range(pred_cls) \cup Range(target_cls) :
            /\ c \in Range(unique_classes)
            /\ Len(ap) = Len(unique_classes)
            /\ (Count(pred_cls, c) = 0 \/ Count(target_cls, c) = 0)
                  => /\ ap[IndexOf(c)] = Zero
                     /\ p[IndexOf(c)] = Zero
                     /\ r[IndexOf(c)] = Zero

----------------------------------------------------------------------------
(* build_targets *)

MaxTargets == 2   \* ground-truth rows in a call of build_targets

\* a ground-truth row: image b, class, normalised center and size
Target(b, label, cx, cy, w, h) ==
    [b |-> b, label |-> label, cx |-> cx, cy |-> cy, w |-> w, h |-> h]

\* normalised centers: two of them in the same cell of a 2 x 2 grid
TargetPlaces == { <<R(1, 8), R(1, 4)>>, <<R(3, 8), R(1, 4)>>, <<R(5, 8), R(1, 4)>> }

\* normalised sizes: on a 2 x 2 grid the first is anchor 0 exactly, the
\* second lies between the two anchors
TargetSizes == { <<R(1, 2), R(1, 2)>>, <<R(3, 4), R(1, 2)>> }

\* the ground truth of image 0, and one box in image 1
TargetUniverse ==
    { Target(0, label, pl[1], pl[2], sz[1], sz[2]) :
        pl \in TargetPlaces, label \in 0..1, sz \in TargetSizes }
    \cup { Target(1, 0, R(1, 8), R(1, 4), R(1, 2), R(1, 2)) }

TwoAnchors == << <<RInt(1), RInt(1)>>, <<RInt(2), RInt(1)>> >>

\* (anchors, nG, ignore_thres): two well-formed configurations
BtConfigs == { <<TwoAnchors, 2, R(1, 2)>>, <<TwoAnchors, 2, R(7, 10)>> }

\* an empty anchor set, and a grid of size 0
BtMalformed == { << <<>>, 2, R(1, 2)>>, <<TwoAnchors, 0, R(1, 2)>> }

\* pred_boxes[b, a, j, i]: the anchor's size at the center of the cell
PredBox(cell) ==
    << R(2 * cell[4] + 1, 2), R(2 * cell[3] + 1, 2),
       TwoAnchors[cell[2] + 1][1], TwoAnchors[cell[2] + 1][2] >>

\* pred_cls[b, a, j, i].argmax(-1)
PredClsArgmax(cell) == (cell[2] + cell[4]) % nC

\* the index space of the output tensors: (b, a, j, i), 0-based
Cells == (0..(nB - 1)) \X (0..(nA - 1)) \X (0..(nG - 1)) \X (0..(nG - 1))

\* ByteTensor(nB, nA, nG, nG).fill_(v)
Fill(v) == [cell \in Cells |-> v]

\* the entries of tw and th are logarithms, kept as their arguments:
\* Ln(x) stands for log(x), and fill_(0) gives Ln(1)
Ln(x) == [ln |-> x]

\* target[:, 2:6] * nG
gx(k) == RMul(target[k].cx, RInt(nG))
gy(k) == RMul(target[k].cy, RInt(nG))
gw(k) == RMul(target[k].w, RInt(nG))
gh(k) == RMul(target[k].h, RInt(nG))

\* gxy.long()
gi(k) == RFloor(gx(k))
gj(k) == RFloor(gy(k))

\* bbox_wh_iou(anchor, gwh) for one ground-truth size
bbox_wh_iou(wh1, wh2) ==
    LET inter_area == RMul(RMin(wh1[1], wh2[1]), RMin(wh1[2], wh2[2]))
        union_area == RSub(RAdd(RMul(wh1[1], wh1[2]), RMul(wh2[1], wh2[2])),
                           inter_area)
    IN IF union_area = Zero THEN Zero ELSE RDiv(inter_area, union_area)

\* ious.t()[k]: the size-only IoU of target k with every anchor
AnchorIous(k) ==
    [a \in DOMAIN anchors |-> bbox_wh_iou(anchors[a], <<gw(k), gh(k)>>)]

\* ious.max(0): the anchors that may be reported as best for each target
BestAnchors ==
    {best \in [DOMAIN target -> 0..(Len(anchors) - 1)] :
        \A k \in DOMAIN target : (best[k] + 1) \in MaxIndices(AnchorIous(k))}

\* (b, best_n, gj, gi) of target k
Index(k) == <<target[k].b, best_n[k], gj(k), gi(k)>>

InBounds(k) == Index(k) \in Cells /\ target[k].label \in 0..(nC - 1)

\* an indexed assignment with repeated indices keeps, at each index, the
\* value of one of the rows written there, which one is not defined:
\* a choice w maps every row to the row that wins at its index
Winners ==
    {w \in [DOMAIN target -> DOMAIN target] :
        /\ \A k \in DOMAIN target : Index(w[k]) = Index(k)
        /\ \A k1 \in DOMAIN target, k2 \in DOMAIN target :
              Index(k1) = Index(k2) => w[k1] = w[k2]}

\* tensor[b, best_n, gj, gi] = val, the rows won as w says
Put(tensor, w, val) ==
    [cell \in Cells |->
        IF \E k \in DOMAIN target : Index(k) = cell
        THEN val[w[CHOOSE k \in DOMAIN target : Index(k) = cell]]
        ELSE tensor[cell]]

\* tensor[b, best_n, gj, gi] = v for one value v
PutAll(tensor, v) ==
    [cell \in Cells |->
        IF \E k \in DOMAIN target : Index(k) = cell THEN v ELSE tensor[cell]]

\* a variant of the clearing below that also clears at anchor_ious = ignore_thres
ClearIgnoredAtLeast(mask, k) ==
    [cell \in Cells |->
        IF /\ cell[1] = target[k].b
           /\ cell[3] = gj(k)
           /\ cell[4] = gi(k)
           /\ (cell[2] + 1) \in DOMAIN anchors
           /\ Ge(AnchorIous(k)[cell[2] + 1], ignore_thres)
        THEN 0 ELSE mask[cell]]

\* noobj_mask[b[i], anchor_ious > ignore_thres, gj[i], gi[i]] = 0
ClearIgnored(mask, k) ==
    [cell \in Cells |->
        IF /\ cell[1] = target[k].b
           /\ cell[3] = gj(k)
           /\ cell[4] = gi(k)
           /\ (cell[2] + 1) \in DOMAIN anchors
           /\ Gt(AnchorIous(k)[cell[2] + 1], ignore_thres)
        THEN 0 ELSE mask[cell]]

\* tcls[b, best_n, gj, gi, target_labels] = 1
PutLabels(tensor) ==
    [cell \in Cells |->
        [c \in 0..(nC - 1) |->
            IF \E k \in DOMAIN target : Index(k) = cell /\ target[k].label = c
            THEN 1 ELSE tensor[cell][c]]]

\* lines 277-294: the output tensors
BtAlloc ==
    /\ pc = "bt_entry"
    /\ obj_mask' = Fill(0)
    /\ noobj_mask' = Fill(1)
    /\ class_mask' = Fill(0)
    /\ iou_scores' = Fill(Zero)
    /\ tx' = Fill(Zero)
    /\ ty' = Fill(Zero)
    /\ tw' = Fill(Ln(One))
    /\ th' = Fill(Ln(One))
    /\ tcls' = Fill([c \in 0..(nC - 1) |-> 0])
    /\ pc' = "bt_anchors"
    /\ UNCHANGED <<btIn, best_n, ignore_i, tconf>>
    /\ UNCHANGED nonBt

\* line 302: torch.stack of an empty list raises
BtStackFails ==
    /\ pc = "bt_anchors"
    /\ anchors = <<>>
    /\ pc' = "bt_raised"
    /\ UNCHANGED btVars
    /\ UNCHANGED nonBt

\* lines 297-309: the best anchor of every target
BtBestAnchors ==
    /\ pc = "bt_anchors"
    /\ anchors # <<>>
    /\ best_n' \in BestAnchors
    /\ pc' = "bt_masks"
    /\ UNCHANGED <<btIn, ignore_i, btOut>>
    /\ UNCHANGED nonBt

\* line 312 with an index outside the tensor raises
BtIndexError ==
    /\ pc = "bt_masks"
    /\ \E k \in DOMAIN target : ~InBounds(k)
    /\ pc' = "bt_raised"
    /\ UNCHANGED btVars
    /\ UNCHANGED nonBt

\* lines 312-313
BtMasks ==
    /\ pc = "bt_masks"
    /\ \A k \in DOMAIN target : InBounds(k)
    /\ obj_mask' = PutAll(obj_mask, 1)
    /\ noobj_mask' = PutAll(noobj_mask, 0)
    /\ ignore_i' = 1
    /\ pc' = "bt_ignore"
    /\ UNCHANGED <<btIn, best_n, class_mask, iou_scores, tx, ty, tw, th, tcls, tconf>>
    /\ UNCHANGED nonBt

\* lines 316-317: one iteration
BtIgnore ==
    /\ pc = "bt_ignore"
    /\ ignore_i <= Len(target)
    /\ noobj_mask' = ClearIgnored(noobj_mask, ignore_i)
    /\ ignore_i' = ignore_i + 1
    /\ UNCHANGED <<pc, btIn, best_n, obj_mask, class_mask, iou_scores,
                   tx, ty, tw, th, tcls, tconf>>
    /\ UNCHANGED nonBt

\* gx - gx.floor()
Frac(v) == RSub(v, RInt(RFloor(v)))

\* lines 320-321: the offsets
BtCoordinates ==
    /\ pc = "bt_ignore"
    /\ ignore_i > Len(target)
    /\ \E wx \in Winners, wy \in Winners :
          /\ tx' = Put(tx, wx, [k \in DOMAIN target |-> Frac(gx(k))])
          /\ ty' = Put(ty, wy, [k \in DOMAIN target |-> Frac(gy(k))])
    /\ pc' = "bt_sizes"
    /\ UNCHANGED <<btIn, best_n, ignore_i, obj_mask, noobj_mask, class_mask,
                   iou_scores, tw, th, tcls, tconf>>
    /\ UNCHANGED nonBt

\* lines 324-325: log(gw / anchor_w + 1e-16), log(gh / anchor_h + 1e-16)
BtSizes ==
    /\ pc = "bt_sizes"
    /\ \E ww \in Winners, wh \in Winners :
          /\ tw' = Put(tw, ww, [k \in DOMAIN target |->
                                  Ln(RDiv(gw(k), anchors[best_n[k] + 1][1]))])
          /\ th' = Put(th, wh, [k \in DOMAIN target |->
                                  Ln(RDiv(gh(k), anchors[best_n[k] + 1][2]))])
    /\ pc' = "bt_classes"
    /\ UNCHANGED <<btIn, best_n, ignore_i, obj_mask, noobj_mask, class_mask,
                   iou_scores, tx, ty, tcls, tconf>>
    /\ UNCHANGED nonBt

\* lines 328-335: class targets, diagnostics, tconf, return
BtClasses ==
    /\ pc = "bt_classes"
    /\ tcls' = PutLabels(tcls)
    /\ \E wc \in Winners, wi \in Winners :
          /\ class_mask' = Put(class_mask, wc, [k \in DOMAIN target |->
                                  IF PredClsArgmax(Index(k)) = target[k].label
                                  THEN 1 ELSE 0])
          /\ iou_scores' = Put(iou_scores, wi, [k \in DOMAIN target |->
                                  bbox_iou_xywh(PredBox(Index(k)),
                                                <<gx(k), gy(k), gw(k), gh(k)>>)])
    /\ tconf' = obj_mask
    /\ pc' = "bt_done"
    /\ UNCHANGED <<btIn, best_n, ignore_i, obj_mask, noobj_mask, tx, ty, tw, th>>
    /\ UNCHANGED nonBt

BtInit ==
    /\ pc = "bt_entry"
    /\ \/ \E n \in 0..MaxTargets, cfg \in BtConfigs :
             /\ target \in [1..n -> TargetUniverse]
             /\ anchors = cfg[1]
             /\ nG = cfg[2]
             /\ ignore_thres = cfg[3]
       \/ \E n \in 0..1, cfg \in BtMalformed :
             /\ target \in [1..n -> TargetUniverse]
             /\ anchors = cfg[1]
             /\ nG = cfg[2]
             /\ ignore_thres = cfg[3]
    /\ nB = 2
    /\ nA = 2
    /\ nC = 2
    /\ best_n = <<>>
    /\ ignore_i = 0
    /\ obj_mask = <<>>
    /\ noobj_mask = <<>>
    /\ class_mask = <<>>
    /\ iou_scores = <<>>
    /\ tx = <<>>
    /\ ty = <<>>
    /\ tw = <<>>
    /\ th = <<>>
    /\ tcls = <<>>
    /\ tconf = <<>>
    /\ NmsIdle
    /\ IouIdle
    /\ GbsIdle
    /\ ApcIdle
    /\ CapIdle

BtNext ==
    \/ BtAlloc
    \/ BtStackFails
    \/ BtBestAnchors
    \/ BtIndexError
    \/ BtMasks
    \/ BtIgnore
    \/ BtCoordinates
    \/ BtSizes
    \/ BtClasses

SpecBT == BtInit /\ [][BtNext]_vars

\* the targets that share their (image, anchor, row, col) with an earlier one
\* and are the last to be written there
LastOfCollision ==
    {k \in DOMAIN target :
        /\ \E k1 \in 1..(k - 1) : Index(k1) = Index(k)
        /\ \A k2 \in (k + 1)..Len(target) : Index(k2) # Index(k)}

OneHot(c) == [c2 \in 0..(nC - 1) |-> IF c2 = c THEN 1 ELSE 0]

\* C10: when two ground-truth boxes of one image map to the same
\* (anchor, row, col), the returned offset, scale and class targets at that
\* location are those of the later box alone; the class target there is a
\* one-hot vector at the later box's class.
C10_LastWriteWins ==
    pc = "bt_done" =>
        \A k \in LastOfCollision :
            /\ tx[Index(k)] = Frac(gx(k))
            /\ ty[Index(k)] = Frac(gy(k))
            /\ tw[Index(k)] = Ln(RDiv(gw(k), anchors[best_n[k] + 1][1]))
            /\ th[Index(k)] = Ln(RDiv(gh(k), anchors[best_n[k] + 1][2]))
            /\ tcls[Index(k)] = OneHot(target[k].label)

\* ground-truth box k of the call lies in the image and grid cell of the
\* location
CenterIn(k, cell) ==
    /\ target[k].b = cell[1]
    /\ RFloor(gy(k)) = cell[3]
    /\ RFloor(gx(k)) = cell[4]

\* the anchor of the location is the one taken as primary for box k, and
\* no anchor has a larger size-only IoU with box k
PrimaryAt(k, cell) ==
    /\ best_n[k] = cell[2]
    /\ \A a \in DOMAIN anchors :
          RLe(bbox_wh_iou(anchors[a], <<gw(k), gh(k)>>),
              bbox_wh_iou(anchors[cell[2] + 1], <<gw(k), gh(k)>>))

\* the size-only IoU of the location's anchor with box k exceeds ignore_thres
IgnoredAt(k, cell) ==
    RLt(ignore_thres, bbox_wh_iou(anchors[cell[2] + 1], <<gw(k), gh(k)>>))

\* C11: after build_targets, at every (image, anchor, row, col): obj_mask
\* is 1 exactly when some ground-truth box of the image has its center in
\* the cell and the anchor as its primary anchor; where obj_mask is 1,
\* noobj_mask is 0; and noobj_mask is 0 only at a cell holding the center
\* of a ground-truth box for which the anchor is primary or has a
\* size-only IoU above ignore_thres.
C11_MasksMatchGroundTruth ==
    pc = "bt_done" =>
        \A cell \in Cells :
            /\ obj_mask[cell] \in {0, 1}
            /\ noobj_mask[cell] \in {0, 1}
            /\ obj_mask[cell] = 1 <=>
                  \E k \in DOMAIN target : CenterIn(k, cell) /\ PrimaryAt(k, cell)
            /\ obj_mask[cell] = 1 => noobj_mask[cell] = 0
            /\ noobj_mask[cell] = 0 =>
                  \E k \in DOMAIN target :
                      /\ CenterIn(k, cell)
                      /\ PrimaryAt(k, cell) \/ IgnoredAt(k, cell)

\* a call has returned with a location that is cleared in noobj_mask for
\* an anchor that is not primary, and a location in the cell of a box left
\* at 1 because its IoU equals ignore_thres
C11_Witness ==
    /\ pc = "bt_done"
    /\ \E cell \in Cells : obj_mask[cell] = 0 /\ noobj_mask[cell] = 0
    /\ \E cell \in Cells, k \in DOMAIN target :
          /\ CenterIn(k, cell)
          /\ noobj_mask[cell] = 1
          /\ bbox_wh_iou(anchors[cell[2] + 1], <<gw(k), gh(k)>>) = ignore_thres

-----------------------------------------------------------------------------
(* The three functions that take configuration: non_max_suppression,
   get_batch_statistics and build_targets, each called on its own *)

ConfigInit == NmsInit \/ GbsInit \/ BtInit

ConfigNext == NmsNext \/ GbsNext \/ BtNext

SpecConfig == ConfigInit /\ [][ConfigNext]_vars

NmsCalled == pass > 0
GbsCalled == pc \in {"gbs_entry", "gbs_sample", "gbs_pred", "gbs_done"}
BtCalled == nB > 0

NmsMalformed == NmsCalled /\ (~InUnit(conf_thres) \/ ~InUnit(nms_thres))
GbsMalformed == GbsCalled /\ ~InUnit(iou_threshold)
BtMalformedCall == BtCalled /\ (anchors = <<>> \/ nG <= 0)

\* C8: a call with a threshold outside [0,1], an empty anchor set or a
\* grid size that is not positive is rejected before any work: it never
\* gets past its entry except into an error, it produces no output, and
\* the caller's input is as it was passed.
C8_ConfigRejected ==
    /\ NmsMalformed =>
          /\ pc \in {"nms_entry", "config_error"}
          /\ output = <<>>
          /\ prediction = prediction_in
    /\ GbsMalformed =>
          /\ pc \in {"gbs_entry", "config_error"}
          /\ batch_metrics = <<>>
    /\ BtMalformedCall =>
          /\ pc \in {"bt_entry", "config_error", "bt_raised"}
          /\ pc = "bt_raised" => best_n = <<>>

====
